---- MODULE Spec2Model ----
(***************************************************************************)
(* The App component of src/App.tsx as a state machine: the React state    *)
(* of the component, the asynchronous handlers (one action per synchronous *)
(* segment between two awaits), the isGeneratingVideo effect with its      *)
(* interval, and the rendering conditions that decide which handler the    *)
(* user can trigger.                                                       *)
(***************************************************************************)
EXTENDS Integers, Sequences, FiniteSets, TLC

\* ------------------------------------------------------------------ bounds
\* Invocations of handleGenerateVideo that may be pending at the same time.
MaxVideoOps == 2
\* Invocations of handleGenerateLogo that may be pending at the same time.
MaxLogoOps == 2
\* File reads of handleFileChange that may be pending at the same time.
MaxFileOps == 1
\* Clicks, edits and file choices the user makes in one session.
MaxUserEvents == 4
\* The same, in the sessions in which handleGenerateVideo is called directly.
MaxAnyCallEvents == 3
\* The same, in the sessions of the component that stays mounted.
MaxLiveEvents == 3

\* ------------------------------------------------------------------ values
\* null of `string | null`; strings are sequences, so null is kept apart from
\* every image (length 2), video (length 4) and stored message (length >= 1).
Null == <<>>

\* Text is a sequence of characters; the user's inputs are drawn from these.
LogoPrompts == { <<>>, <<" ", " ">>, <<" ", "f", " ">> }
AnimationPrompts == { <<" ">>, <<"w">> }
AspectRatios == {"16:9", "9:16"}

\* Image payloads the image service may return, and files the user may pick.
Payloads == {"P1", "P2"}
Files == {"F1"}
NoFile == "none"

\* A message is a sequence of fragments; Signature is the fragment the video
\* handler looks for.
Signature == "Requested entity was not found"
RemoteMessages == { <<>>, <<"quota exceeded">>, <<"404: ", Signature, ".">> }

ErrLogoPrompt == <<"Please enter a description for your logo.">>
ErrLogoFallback == <<"Failed to generate logo.">>
ErrNoLogo == <<"Please generate or upload a logo to animate.">>
ErrAnimationPrompt == <<"Please enter a prompt for the animation.">>
ErrSelectKey == <<"Please select an API key to generate videos.">>
ErrVideoFallback == <<"An unknown error occurred during video generation.">>
ErrReselect == <<"API Key not found or invalid. Please re-select your API key.">>
ErrFileRead == <<"Failed to read the uploaded file.">>
ErrOpenSelector == <<"Failed to open API key selector. Please try again.">>

videoLoadingMessages ==
    << "Warming up the animation engine...",
       "Teaching the pixels to dance...",
       "Composing a symphony of light and motion...",
       "This can take a few minutes, please be patient...",
       "Rendering the final masterpiece...",
       "Almost there, adding the final sparkle..." >>

\* ------------------------------------------------------------- pure helpers
\* String.prototype.trim on a sequence of characters.
RECURSIVE TrimLeft(_)
TrimLeft(s) == IF s # <<>> /\ Head(s) = " " THEN TrimLeft(Tail(s)) ELSE s

RECURSIVE TrimRight(_)
TrimRight(s) ==
    IF s # <<>> /\ s[Len(s)] = " " THEN TrimRight(SubSeq(s, 1, Len(s) - 1)) ELSE s

Trim(s) == TrimRight(TrimLeft(s))

\* A variant of IsBlank that forgets the trim: only the empty string is blank.
IsBlankUntrimmed(s) == s = <<>>

\* !s.trim(): the empty string is falsy.
IsBlank(s) == Trim(s) = <<>>

\* errorMessage.includes("Requested entity was not found")
Includes(msg, fragment) == \E i \in 1..Len(msg) : msg[i] = fragment

\* videoLoadingMessages.indexOf(prev), zero-based, -1 when absent.
IndexOf(m) ==
    IF \E i \in 1..Len(videoLoadingMessages) : videoLoadingMessages[i] = m
    THEN (CHOOSE i \in 1..Len(videoLoadingMessages) : videoLoadingMessages[i] = m) - 1
    ELSE -1

\* The updater of the interval callback.
NextLoadingMessage(prev) ==
    videoLoadingMessages[((IndexOf(prev) + 1) % Len(videoLoadingMessages)) + 1]

\* `data:image/jpeg;base64,${imageB64}`: the prefix, a comma, the payload.
ImageUrl(imageB64) == <<"data:image/jpeg;base64", imageB64>>

\* fileToBase64(file): the data URL of the file.
FileToBase64(file) == <<"data:image/png;base64", file>>

\* A variant of Base64Data that takes the part before the comma.
Base64DataPrefix(dataUrl) == dataUrl[1]

\* logoToAnimate.split(',')[1]
Base64Data(dataUrl) == dataUrl[2]

\* generateLogoVideo(prompt, base64Data, aspectRatio): the video the service
\* makes is identified by what it was made from.
GenerateLogoVideo(prompt, base64Data, ratio) == <<"video", base64Data, ratio, prompt>>

\* e.message || fallback
MessageOr(msg, fallback) == IF msg = <<>> THEN fallback ELSE msg

\* ------------------------------------------------------------------- state
VARIABLES
    st,         \* the useState values of the component
    mounted,    \* FALSE once the component is unmounted
    timers,     \* number of intervals set by the effect and not yet cleared
    logoOps,    \* invocations of handleGenerateLogo, by slot
    videoOps,   \* invocations of handleGenerateVideo, by slot
    fileOps,    \* invocations of handleFileChange, by slot
    keyCheck,   \* the checkApiKey call made on mount
    selectOp,   \* the pending handleSelectKey call
    events,     \* number of user events so far
    lastStep,   \* the segment of code that ran last, and the message it caught
    solo        \* the invocation whose segments ran last, one after the other

vars == <<st, mounted, timers, logoOps, videoOps, fileOps, keyCheck, selectOp,
          events, lastStep, solo>>

IdleLogoOp == [pc |-> "idle", prompt |-> <<>>]
IdleVideoOp == [pc |-> "idle", img |-> Null, prompt |-> <<>>, ratio |-> "16:9"]
IdleFileOp == [pc |-> "idle", file |-> NoFile]

Step(kind, msg) == [kind |-> kind, msg |-> msg]

\* No invocation has run its segments back to back.
NoSolo == [op |-> "none", slot |-> 0, stage |-> 0]

\* The useState initial values, and the first run of both effects: no
\* interval is set, checkApiKey awaits the provider.
InitialState ==
    [ logoPrompt          |-> <<" ", "f", " ">>,
      animationPrompt     |-> <<"w">>,
      generatedLogo       |-> Null,
      generatedVideo      |-> Null,
      logoToAnimate       |-> Null,
      isGeneratingLogo    |-> FALSE,
      isGeneratingVideo   |-> FALSE,
      error               |-> Null,
      aspectRatio         |-> "16:9",
      hasApiKey           |-> FALSE,
      videoLoadingMessage |-> videoLoadingMessages[1] ]

Init ==
    /\ st = InitialState
    /\ mounted = TRUE
    /\ timers = 0
    /\ logoOps = [i \in 1..MaxLogoOps |-> IdleLogoOp]
    /\ videoOps = [i \in 1..MaxVideoOps |-> IdleVideoOp]
    /\ fileOps = [i \in 1..MaxFileOps |-> IdleFileOp]
    /\ keyCheck = "pending"
    /\ selectOp = "idle"
    /\ events = 0
    /\ lastStep = Step("mount", <<>>)
    /\ solo = NoSolo

\* --------------------------------------------------- the effect and commits
\* A variant of EffectCleanup that never clears the interval.
EffectCleanupLeaks(hadInterval, t) == t

\* The cleanup of the effect: if (interval) clearInterval(interval).
EffectCleanup(hadInterval, t) == IF hadInterval THEN t - 1 ELSE t

\* The body of the effect: if (isGeneratingVideo) interval = setInterval(...).
EffectSetup(generating, t) == IF generating THEN t + 1 ELSE t

\* React runs the cleanup and then the effect when the dependency changed.
RunEffect(before, after, t) ==
    IF before # after THEN EffectSetup(after, EffectCleanup(before, t)) ELSE t

\* The state updates of one synchronous segment, and the effect they cause.
\* The setters of an unmounted component do nothing.
Commit(new) ==
    /\ st' = IF mounted THEN new ELSE st
    /\ timers' = IF mounted
                 THEN RunEffect(st.isGeneratingVideo, new.isGeneratingVideo, timers)
                 ELSE timers

\* The lowest free slot of a table of invocations.
IsFreeSlot(ops, i) ==
    /\ ops[i].pc = "idle"
    /\ \A j \in DOMAIN ops : j < i => ops[j].pc # "idle"

\* ------------------------------------------------------ rendering conditions
\* <button onClick={handleGenerateLogo} disabled={isGeneratingLogo}>
CanGenerateLogo == mounted /\ ~st.isGeneratingLogo

\* {logoToAnimate && ( ... )}: the controls of step 2.
AnimateRendered == mounted /\ st.logoToAnimate # Null

\* hasApiKey ? <button onClick={handleGenerateVideo} disabled={isGeneratingVideo}>
CanGenerateAnimation == AnimateRendered /\ st.hasApiKey /\ ~st.isGeneratingVideo

\* !hasApiKey ? <button onClick={handleSelectKey}>
CanSelectKey == AnimateRendered /\ ~st.hasApiKey

\* textarea and aspect buttons: disabled={isGeneratingVideo}
CanEditAnimation == AnimateRendered /\ ~st.isGeneratingVideo

\* ------------------------------------------------------------------- edits
SetLogoPrompt(p) ==
    /\ mounted /\ ~st.isGeneratingLogo
    /\ p # st.logoPrompt
    /\ Commit([st EXCEPT !.logoPrompt = p])
    /\ lastStep' = Step("edit", <<>>)
    /\ UNCHANGED <<mounted, logoOps, videoOps, fileOps, keyCheck, selectOp>>

SetAnimationPrompt(p) ==
    /\ CanEditAnimation
    /\ p # st.animationPrompt
    /\ Commit([st EXCEPT !.animationPrompt = p])
    /\ lastStep' = Step("edit", <<>>)
    /\ UNCHANGED <<mounted, logoOps, videoOps, fileOps, keyCheck, selectOp>>

SetAspectRatio(r) ==
    /\ CanEditAnimation
    /\ r # st.aspectRatio
    /\ Commit([st EXCEPT !.aspectRatio = r])
    /\ lastStep' = Step("edit", <<>>)
    /\ UNCHANGED <<mounted, logoOps, videoOps, fileOps, keyCheck, selectOp>>

\* ------------------------------------------------------ handleGenerateLogo
\* if (!logoPrompt.trim()) { setError(...); return; }
LogoInvalid ==
    /\ IsBlank(st.logoPrompt)
    /\ Commit([st EXCEPT !.error = ErrLogoPrompt])
    /\ lastStep' = Step("logoInvalid", <<>>)
    /\ UNCHANGED <<mounted, logoOps, videoOps, fileOps, keyCheck, selectOp>>

\* A variant of LogoDispatch that keeps the previous video.
LogoDispatchKeepsVideo ==
    /\ ~IsBlank(st.logoPrompt)
    /\ \E i \in 1..MaxLogoOps :
        /\ IsFreeSlot(logoOps, i)
        /\ logoOps' = [logoOps EXCEPT ![i] = [pc |-> "call", prompt |-> st.logoPrompt]]
    /\ Commit([st EXCEPT !.isGeneratingLogo = TRUE,
                         !.error = Null,
                         !.generatedLogo = Null,
                         !.logoToAnimate = Null])
    /\ lastStep' = Step("logoDispatch", <<>>)
    /\ UNCHANGED <<mounted, videoOps, fileOps, keyCheck, selectOp>>

\* The setters before the try, and the call of generateLogoImage(logoPrompt).
LogoDispatch ==
    /\ ~IsBlank(st.logoPrompt)
    /\ \E i \in 1..MaxLogoOps :
        /\ IsFreeSlot(logoOps, i)
        /\ logoOps' = [logoOps EXCEPT ![i] = [pc |-> "call", prompt |-> st.logoPrompt]]
    /\ Commit([st EXCEPT !.isGeneratingLogo = TRUE,
                         !.error = Null,
                         !.generatedLogo = Null,
                         !.logoToAnimate = Null,
                         !.generatedVideo = Null])
    /\ lastStep' = Step("logoDispatch", <<>>)
    /\ UNCHANGED <<mounted, videoOps, fileOps, keyCheck, selectOp>>

handleGenerateLogo == LogoInvalid \/ LogoDispatch

\* A variant of LogoResolved whose finally clears both busy flags.
LogoResolvedBothFlags(i, imageB64) ==
    /\ logoOps[i].pc = "call"
    /\ logoOps' = [logoOps EXCEPT ![i] = IdleLogoOp]
    /\ Commit([st EXCEPT !.generatedLogo = ImageUrl(imageB64),
                         !.logoToAnimate = ImageUrl(imageB64),
                         !.isGeneratingLogo = FALSE,
                         !.isGeneratingVideo = FALSE])
    /\ lastStep' = Step("logoResolved", <<>>)
    /\ UNCHANGED <<mounted, videoOps, fileOps, keyCheck, selectOp>>

\* generateLogoImage resolves: the rest of the try, then the finally.
LogoResolved(i, imageB64) ==
    /\ logoOps[i].pc = "call"
    /\ logoOps' = [logoOps EXCEPT ![i] = IdleLogoOp]
    /\ Commit([st EXCEPT !.generatedLogo = ImageUrl(imageB64),
                         !.logoToAnimate = ImageUrl(imageB64),
                         !.isGeneratingLogo = FALSE])
    /\ lastStep' = Step("logoResolved", <<>>)
    /\ UNCHANGED <<mounted, videoOps, fileOps, keyCheck, selectOp>>

\* A variant of LogoRejected without the finally.
LogoRejectedKeepsBusy(i, msg) ==
    /\ logoOps[i].pc = "call"
    /\ logoOps' = [logoOps EXCEPT ![i] = IdleLogoOp]
    /\ Commit([st EXCEPT !.error = MessageOr(msg, ErrLogoFallback)])
    /\ lastStep' = Step("logoRejected", msg)
    /\ UNCHANGED <<mounted, videoOps, fileOps, keyCheck, selectOp>>

\* generateLogoImage rejects: the catch, then the finally.
LogoRejected(i, msg) ==
    /\ logoOps[i].pc = "call"
    /\ logoOps' = [logoOps EXCEPT ![i] = IdleLogoOp]
    /\ Commit([st EXCEPT !.error = MessageOr(msg, ErrLogoFallback),
                         !.isGeneratingLogo = FALSE])
    /\ lastStep' = Step("logoRejected", msg)
    /\ UNCHANGED <<mounted, videoOps, fileOps, keyCheck, selectOp>>

\* ----------------------------------------------------- handleGenerateVideo
\* A variant of VideoInvalidNoLogo that sets the error and goes on to the
\* credential check.
VideoInvalidNoLogoGoesOn ==
    /\ st.logoToAnimate = Null
    /\ \E i \in 1..MaxVideoOps :
        /\ IsFreeSlot(videoOps, i)
        /\ videoOps' = [videoOps EXCEPT ![i] =
                          [pc |-> "checkKey", img |-> st.logoToAnimate,
                           prompt |-> st.animationPrompt, ratio |-> st.aspectRatio]]
    /\ Commit([st EXCEPT !.error = ErrNoLogo])
    /\ lastStep' = Step("videoInvalid", <<>>)
    /\ UNCHANGED <<mounted, logoOps, fileOps, keyCheck, selectOp>>

\* if (!logoToAnimate) { setError(...); return; }
VideoInvalidNoLogo ==
    /\ st.logoToAnimate = Null
    /\ Commit([st EXCEPT !.error = ErrNoLogo])
    /\ lastStep' = Step("videoInvalid", <<>>)
    /\ UNCHANGED <<mounted, logoOps, videoOps, fileOps, keyCheck, selectOp>>

\* if (!animationPrompt.trim()) { setError(...); return; }
VideoInvalidPrompt ==
    /\ st.logoToAnimate # Null
    /\ IsBlank(st.animationPrompt)
    /\ Commit([st EXCEPT !.error = ErrAnimationPrompt])
    /\ lastStep' = Step("videoInvalid", <<>>)
    /\ UNCHANGED <<mounted, logoOps, videoOps, fileOps, keyCheck, selectOp>>

\* The call of window.aistudio.hasSelectedApiKey(); the invocation keeps the
\* logoToAnimate, animationPrompt and aspectRatio of the render it was made in.
VideoCheckKey ==
    /\ st.logoToAnimate # Null
    /\ ~IsBlank(st.animationPrompt)
    /\ \E i \in 1..MaxVideoOps :
        /\ IsFreeSlot(videoOps, i)
        /\ videoOps' = [videoOps EXCEPT ![i] =
                          [pc |-> "checkKey", img |-> st.logoToAnimate,
                           prompt |-> st.animationPrompt, ratio |-> st.aspectRatio]]
    /\ lastStep' = Step("videoCheckKey", <<>>)
    /\ UNCHANGED <<st, timers, mounted, logoOps, fileOps, keyCheck, selectOp>>

\* A variant of VideoCatch that rewrites the message and keeps hasApiKey.
VideoCatchKeepsKey(s, msg) ==
    LET errorMessage == MessageOr(msg, ErrVideoFallback) IN
    IF Includes(errorMessage, Signature)
    THEN [s EXCEPT !.error = ErrReselect]
    ELSE [s EXCEPT !.error = errorMessage]

handleGenerateVideo == VideoInvalidNoLogo \/ VideoInvalidPrompt \/ VideoCheckKey

\* The catch block of handleGenerateVideo, applied to the state s.
VideoCatch(s, msg) ==
    LET errorMessage == MessageOr(msg, ErrVideoFallback) IN
    IF Includes(errorMessage, Signature)
    THEN [s EXCEPT !.hasApiKey = FALSE, !.error = ErrReselect]
    ELSE [s EXCEPT !.error = errorMessage]

\* A variant of VideoFinally that leaves the busy flag as it is.
VideoFinallySkipped(s) == s

\* The finally block of handleGenerateVideo, applied to the state s.
VideoFinally(s) == [s EXCEPT !.isGeneratingVideo = FALSE]

\* A variant of StopsWithoutKey that ignores the answer of the provider.
StopsNever(keySelected) == FALSE

\* if (!keySelected): whether the handler stops after the answer of the provider.
StopsWithoutKey(keySelected) == ~keySelected

\* A variant of VideoKeyMissing that runs the three setters of the dispatch
\* before it looks at the answer.
VideoKeyMissingAfterSetters(i, keySelected) ==
    /\ videoOps[i].pc = "checkKey"
    /\ videoOps' = [videoOps EXCEPT ![i] = IdleVideoOp]
    /\ Commit(VideoFinally([st EXCEPT !.hasApiKey = keySelected,
                                      !.generatedVideo = Null,
                                      !.error = ErrSelectKey]))
    /\ lastStep' = Step("videoKeyMissing", <<>>)
    /\ UNCHANGED <<mounted, logoOps, fileOps, keyCheck, selectOp>>

\* hasSelectedApiKey resolves and the handler stops: setHasApiKey, setError,
\* return, and the finally.
VideoKeyMissing(i, keySelected) ==
    /\ videoOps[i].pc = "checkKey"
    /\ videoOps' = [videoOps EXCEPT ![i] = IdleVideoOp]
    /\ Commit(VideoFinally([st EXCEPT !.hasApiKey = keySelected,
                                      !.error = ErrSelectKey]))
    /\ lastStep' = Step("videoKeyMissing", <<>>)
    /\ UNCHANGED <<mounted, logoOps, fileOps, keyCheck, selectOp>>

\* hasSelectedApiKey resolves and the handler goes on: setHasApiKey, the three
\* setters, and the call of generateLogoVideo.
VideoDispatch(i, keySelected) ==
    /\ videoOps[i].pc = "checkKey"
    /\ videoOps' = [videoOps EXCEPT ![i].pc = "call"]
    /\ Commit([st EXCEPT !.hasApiKey = keySelected,
                         !.isGeneratingVideo = TRUE,
                         !.error = Null,
                         !.generatedVideo = Null])
    /\ lastStep' = Step("videoDispatch", <<>>)
    /\ UNCHANGED <<mounted, logoOps, fileOps, keyCheck, selectOp>>

VideoKeyChecked(i, keySelected) ==
    \/ StopsWithoutKey(keySelected) /\ VideoKeyMissing(i, keySelected)
    \/ ~StopsWithoutKey(keySelected) /\ VideoDispatch(i, keySelected)

\* hasSelectedApiKey rejects: the catch, then the finally.
VideoKeyCheckFailed(i, msg) ==
    /\ videoOps[i].pc = "checkKey"
    /\ videoOps' = [videoOps EXCEPT ![i] = IdleVideoOp]
    /\ Commit(VideoFinally(VideoCatch(st, msg)))
    /\ lastStep' = Step("videoKeyCheckFailed", msg)
    /\ UNCHANGED <<mounted, logoOps, fileOps, keyCheck, selectOp>>

\* generateLogoVideo resolves: setGeneratedVideo(videoUrl), then the finally.
VideoResolved(i) ==
    /\ videoOps[i].pc = "call"
    /\ videoOps' = [videoOps EXCEPT ![i] = IdleVideoOp]
    /\ Commit(VideoFinally(
         [st EXCEPT !.generatedVideo =
             GenerateLogoVideo(videoOps[i].prompt, Base64Data(videoOps[i].img),
                               videoOps[i].ratio)]))
    /\ lastStep' = Step("videoResolved", <<>>)
    /\ UNCHANGED <<mounted, logoOps, fileOps, keyCheck, selectOp>>

\* generateLogoVideo rejects: the catch, then the finally.
VideoRejected(i, msg) ==
    /\ videoOps[i].pc = "call"
    /\ videoOps' = [videoOps EXCEPT ![i] = IdleVideoOp]
    /\ Commit(VideoFinally(VideoCatch(st, msg)))
    /\ lastStep' = Step("videoRejected", msg)
    /\ UNCHANGED <<mounted, logoOps, fileOps, keyCheck, selectOp>>

\* --------------------------------------------------------- handleFileChange
\* const file = event.target.files?.[0]; without a file nothing happens.
FileNone ==
    /\ lastStep' = Step("fileNone", <<>>)
    /\ UNCHANGED <<st, timers, mounted, logoOps, videoOps, fileOps, keyCheck, selectOp>>

\* setError(null) and the call of fileToBase64(file).
FileStart(file) ==
    /\ \E i \in 1..MaxFileOps :
        /\ IsFreeSlot(fileOps, i)
        /\ fileOps' = [fileOps EXCEPT ![i] = [pc |-> "read", file |-> file]]
    /\ Commit([st EXCEPT !.error = Null])
    /\ lastStep' = Step("fileStart", <<>>)
    /\ UNCHANGED <<mounted, logoOps, videoOps, keyCheck, selectOp>>

handleFileChange(file) == IF file = NoFile THEN FileNone ELSE FileStart(file)

\* A variant of FileRead that keeps the previous video.
FileReadKeepsVideo(i) ==
    /\ fileOps[i].pc = "read"
    /\ fileOps' = [fileOps EXCEPT ![i] = IdleFileOp]
    /\ Commit([st EXCEPT !.logoToAnimate = FileToBase64(fileOps[i].file)])
    /\ lastStep' = Step("fileRead", <<>>)
    /\ UNCHANGED <<mounted, logoOps, videoOps, keyCheck, selectOp>>

\* fileToBase64 resolves: the rest of the try.
FileRead(i) ==
    /\ fileOps[i].pc = "read"
    /\ fileOps' = [fileOps EXCEPT ![i] = IdleFileOp]
    /\ Commit([st EXCEPT !.logoToAnimate = FileToBase64(fileOps[i].file),
                         !.generatedVideo = Null])
    /\ lastStep' = Step("fileRead", <<>>)
    /\ UNCHANGED <<mounted, logoOps, videoOps, keyCheck, selectOp>>

\* fileToBase64 rejects: the catch.
FileReadFailed(i) ==
    /\ fileOps[i].pc = "read"
    /\ fileOps' = [fileOps EXCEPT ![i] = IdleFileOp]
    /\ Commit([st EXCEPT !.error = ErrFileRead])
    /\ lastStep' = Step("fileReadFailed", <<>>)
    /\ UNCHANGED <<mounted, logoOps, videoOps, keyCheck, selectOp>>

\* -------------------------------------------- checkApiKey, handleSelectKey
\* The hasSelectedApiKey call of checkApiKey resolves.
KeyCheckResolved(keySelected) ==
    /\ keyCheck = "pending"
    /\ keyCheck' = "done"
    /\ Commit([st EXCEPT !.hasApiKey = keySelected])
    /\ lastStep' = Step("keyCheckResolved", <<>>)
    /\ UNCHANGED <<mounted, logoOps, videoOps, fileOps, selectOp>>

\* It rejects: the catch only logs.
KeyCheckRejected ==
    /\ keyCheck = "pending"
    /\ keyCheck' = "done"
    /\ lastStep' = Step("keyCheckRejected", <<>>)
    /\ UNCHANGED <<st, timers, mounted, logoOps, videoOps, fileOps, selectOp>>

\* The call of window.aistudio.openSelectKey().
handleSelectKey ==
    /\ selectOp = "idle"
    /\ selectOp' = "open"
    /\ lastStep' = Step("selectKey", <<>>)
    /\ UNCHANGED <<st, timers, mounted, logoOps, videoOps, fileOps, keyCheck>>

\* A variant of SelectKeyResolved that keeps the previous error.
SelectKeyResolvedKeepsError ==
    /\ selectOp = "open"
    /\ selectOp' = "idle"
    /\ Commit([st EXCEPT !.hasApiKey = TRUE])
    /\ lastStep' = Step("selectKeyResolved", <<>>)
    /\ UNCHANGED <<mounted, logoOps, videoOps, fileOps, keyCheck>>

\* openSelectKey resolves.
SelectKeyResolved ==
    /\ selectOp = "open"
    /\ selectOp' = "idle"
    /\ Commit([st EXCEPT !.hasApiKey = TRUE, !.error = Null])
    /\ lastStep' = Step("selectKeyResolved", <<>>)
    /\ UNCHANGED <<mounted, logoOps, videoOps, fileOps, keyCheck>>

\* openSelectKey rejects.
SelectKeyRejected ==
    /\ selectOp = "open"
    /\ selectOp' = "idle"
    /\ Commit([st EXCEPT !.error = ErrOpenSelector])
    /\ lastStep' = Step("selectKeyRejected", <<>>)
    /\ UNCHANGED <<mounted, logoOps, videoOps, fileOps, keyCheck>>

\* ------------------------------------------------------ interval and unmount
\* The callback of an interval that is set.
Tick ==
    /\ timers > 0
    /\ Commit([st EXCEPT !.videoLoadingMessage = NextLoadingMessage(@)])
    /\ lastStep' = Step("tick", <<>>)
    /\ UNCHANGED <<mounted, logoOps, videoOps, fileOps, keyCheck, selectOp>>

\* The component is unmounted: React runs the cleanup of the effect.
Unmount ==
    /\ mounted
    /\ mounted' = FALSE
    /\ timers' = EffectCleanup(st.isGeneratingVideo, timers)
    /\ lastStep' = Step("unmount", <<>>)
    /\ UNCHANGED <<st, logoOps, videoOps, fileOps, keyCheck, selectOp>>

\* ------------------------------------------------------------ specification
\* What the user can trigger is what the component renders and enables.
UserEvent ==
    \/ \E p \in LogoPrompts : SetLogoPrompt(p)
    \/ \E p \in AnimationPrompts : SetAnimationPrompt(p)
    \/ \E r \in AspectRatios : SetAspectRatio(r)
    \/ CanGenerateLogo /\ handleGenerateLogo
    \/ CanGenerateAnimation /\ (VideoInvalidPrompt \/ VideoCheckKey)
    \/ AnimateRendered /\ \E f \in Files \cup {NoFile} : handleFileChange(f)
    \/ CanSelectKey /\ handleSelectKey

\* The collaborators answer, the interval fires, the component goes away.
Reaction ==
    \/ \E i \in 1..MaxLogoOps, b \in Payloads : LogoResolved(i, b)
    \/ \E i \in 1..MaxLogoOps, m \in RemoteMessages : LogoRejected(i, m)
    \/ \E i \in 1..MaxVideoOps, k \in BOOLEAN : VideoKeyChecked(i, k)
    \/ \E i \in 1..MaxVideoOps, m \in RemoteMessages : VideoKeyCheckFailed(i, m)
    \/ \E i \in 1..MaxVideoOps : VideoResolved(i)
    \/ \E i \in 1..MaxVideoOps, m \in RemoteMessages : VideoRejected(i, m)
    \/ \E i \in 1..MaxFileOps : FileRead(i)
    \/ \E i \in 1..MaxFileOps : FileReadFailed(i)
    \/ \E k \in BOOLEAN : KeyCheckResolved(k)
    \/ KeyCheckRejected
    \/ SelectKeyResolved
    \/ SelectKeyRejected
    \/ Tick
    \/ Unmount

\* The invocation that has run without a segment of any other handler in
\* between: stage 1 after its first segment, one more after each later one.
\* The callback of the interval is no handler and leaves it as it is.
SoloAfter ==
    LET k == lastStep'.kind IN
    IF k = "tick" THEN solo
    ELSE IF k = "videoCheckKey"
    THEN [op |-> "video", stage |-> 1,
          slot |-> CHOOSE i \in 1..MaxVideoOps :
                     videoOps[i].pc = "idle" /\ videoOps'[i].pc = "checkKey"]
    ELSE IF k = "logoDispatch"
    THEN [op |-> "logo", stage |-> 1,
          slot |-> CHOOSE i \in 1..MaxLogoOps :
                     logoOps[i].pc = "idle" /\ logoOps'[i].pc = "call"]
    ELSE IF /\ k \in {"videoDispatch", "videoResolved"}
            /\ solo.op = "video"
            /\ videoOps'[solo.slot] # videoOps[solo.slot]
    THEN [solo EXCEPT !.stage = @ + 1]
    ELSE IF /\ k \in {"logoResolved", "logoRejected"}
            /\ solo.op = "logo"
            /\ logoOps'[solo.slot] # logoOps[solo.slot]
    THEN [solo EXCEPT !.stage = @ + 1]
    ELSE NoSolo

Next ==
    /\ \/ events < MaxUserEvents /\ events' = events + 1 /\ UserEvent
       \/ UNCHANGED events /\ Reaction
    /\ solo' = SoloAfter

Spec == Init /\ [][Next]_vars

\* handleGenerateVideo called in any state of the mounted component, whether
\* or not its button is rendered and enabled; the other handlers as in Next.
UserEventAnyCall ==
    \/ \E p \in LogoPrompts : SetLogoPrompt(p)
    \/ \E p \in AnimationPrompts : SetAnimationPrompt(p)
    \/ \E r \in AspectRatios : SetAspectRatio(r)
    \/ CanGenerateLogo /\ handleGenerateLogo
    \/ mounted /\ handleGenerateVideo
    \/ AnimateRendered /\ \E f \in Files \cup {NoFile} : handleFileChange(f)
    \/ CanSelectKey /\ handleSelectKey

NextAnyCall ==
    /\ \/ events < MaxAnyCallEvents /\ events' = events + 1 /\ UserEventAnyCall
       \/ UNCHANGED events /\ Reaction
    /\ solo' = SoloAfter

SpecAnyCall == Init /\ [][NextAnyCall]_vars

\* A collaborator settles a pending call.
Settle ==
    \/ \E i \in 1..MaxLogoOps, b \in Payloads : LogoResolved(i, b)
    \/ \E i \in 1..MaxLogoOps, m \in RemoteMessages : LogoRejected(i, m)
    \/ \E i \in 1..MaxVideoOps, k \in BOOLEAN : VideoKeyChecked(i, k)
    \/ \E i \in 1..MaxVideoOps, m \in RemoteMessages : VideoKeyCheckFailed(i, m)
    \/ \E i \in 1..MaxVideoOps : VideoResolved(i)
    \/ \E i \in 1..MaxVideoOps, m \in RemoteMessages : VideoRejected(i, m)
    \/ \E i \in 1..MaxFileOps : FileRead(i)
    \/ \E i \in 1..MaxFileOps : FileReadFailed(i)
    \/ \E k \in BOOLEAN : KeyCheckResolved(k)
    \/ KeyCheckRejected
    \/ SelectKeyResolved
    \/ SelectKeyRejected

SettleStep == UNCHANGED events /\ Settle /\ solo' = SoloAfter

\* The component stays mounted, and a pending call is settled sooner or later:
\* no remote call, credential query or file read stays pending for ever.
NextLive ==
    \/ /\ events < MaxLiveEvents /\ events' = events + 1 /\ UserEvent
       /\ solo' = SoloAfter
    \/ SettleStep
    \/ UNCHANGED events /\ Tick /\ solo' = SoloAfter

LiveSpec == Init /\ [][NextLive]_vars /\ WF_vars(SettleStep)

\* ------------------------------------------------------------------ claims
\* The invocations whose remote call is in flight.
VideoCalls == {i \in 1..MaxVideoOps : videoOps[i].pc = "call"}
LogoCalls == {i \in 1..MaxLogoOps : logoOps[i].pc = "call"}

\* The image payload a video was made from.
VideoSource(video) == video[2]

\* A prompt that is empty or made of spaces only.
OnlySpaces(p) == \A i \in 1..Len(p) : p[i] = " "

\* C1: in every reachable state, generatedVideo is non-null only if it was
\* made from the image that is logoToAnimate in that state.
C1_VideoMadeFromCurrentInput ==
    st.generatedVideo # Null =>
        /\ st.logoToAnimate # Null
        /\ VideoSource(st.generatedVideo) = Base64Data(st.logoToAnimate)

\* C2: in the state right after a handleGenerateLogo whose image call
\* resolved, logoToAnimate equals generatedLogo and generatedVideo is null.
C2_AfterLogoResolved ==
    mounted /\ lastStep.kind = "logoResolved" =>
        /\ st.generatedLogo # Null
        /\ st.logoToAnimate = st.generatedLogo
        /\ st.generatedVideo = Null

\* C3: a step of the mounted component that ends with hasApiKey false starts
\* no video call: the call is made only when the provider has just answered
\* that a key is selected, whatever hasApiKey was before.
C3_NoVideoCallWithoutKey ==
    [][mounted /\ ~st'.hasApiKey => VideoCalls' \subseteq VideoCalls]_vars

C3_Witness ==
    /\ mounted
    /\ lastStep.kind = "videoKeyMissing"
    /\ ~st.hasApiKey
    /\ VideoCalls = {}

\* C4 as stated: after the video call rejects, a message with the signature
\* gives hasApiKey = FALSE and the re-select instruction; any other message
\* leaves hasApiKey as it was and is itself the error.
C4_RawMessageSurfaced ==
    [][mounted /\ lastStep'.kind = "videoRejected" =>
          IF Includes(lastStep'.msg, Signature)
          THEN ~st'.hasApiKey /\ st'.error = ErrReselect
          ELSE st'.hasApiKey = st.hasApiKey /\ st'.error = lastStep'.msg]_vars

\* C4 as amended: the same, except that a rejection with an empty message
\* surfaces the generic video fallback.
C4_SignatureDemotesKey ==
    [][mounted /\ lastStep'.kind = "videoRejected" =>
          IF Includes(lastStep'.msg, Signature)
          THEN ~st'.hasApiKey /\ st'.error = ErrReselect
          ELSE /\ st'.hasApiKey = st.hasApiKey
               /\ st'.error = MessageOr(lastStep'.msg, ErrVideoFallback)]_vars

C4_Witness ==
    /\ mounted
    /\ lastStep.kind = "videoRejected"
    /\ Includes(lastStep.msg, Signature)
    /\ ~st.hasApiKey
    /\ st.error = ErrReselect

\* C5: a click on Generate Logo with an empty or spaces-only logoPrompt starts
\* no image call and leaves isGeneratingLogo, generatedLogo, logoToAnimate and
\* generatedVideo as they were; only a prompt with a visible character
\* dispatches.
C5_BlankPromptRejected ==
    [][/\ lastStep'.kind = "logoDispatch" => ~OnlySpaces(st.logoPrompt)
       /\ lastStep'.kind = "logoInvalid" =>
            /\ OnlySpaces(st.logoPrompt)
            /\ logoOps' = logoOps
            /\ ~st'.isGeneratingLogo
            /\ st'.isGeneratingLogo = st.isGeneratingLogo
            /\ st'.generatedLogo = st.generatedLogo
            /\ st'.logoToAnimate = st.logoToAnimate
            /\ st'.generatedVideo = st.generatedVideo]_vars

C5_Witness ==
    /\ lastStep.kind = "logoInvalid"
    /\ st.logoPrompt = <<" ", " ">>
    /\ st.generatedLogo # Null
    /\ st.error = ErrLogoPrompt

\* C6: in the state right after an invocation of handleGenerateLogo ends its
\* busy flag is false, and likewise isGeneratingVideo after an invocation of
\* handleGenerateVideo ends (resolved, rejected, key missing, key check
\* failed), while the component is mounted.
C6_BusyFlagsCleared ==
    mounted =>
        /\ lastStep.kind \in {"logoResolved", "logoRejected"} => ~st.isGeneratingLogo
        /\ lastStep.kind \in {"videoResolved", "videoRejected", "videoKeyMissing",
                              "videoKeyCheckFailed"} => ~st.isGeneratingVideo

C6_Witness ==
    /\ mounted
    /\ lastStep.kind = "videoRejected"
    /\ ~st.isGeneratingVideo
    /\ VideoCalls = {}

\* C7: the step in which a file read resolves leaves generatedVideo null and
\* logoToAnimate equal to the data URL of the file that was read.
C7_UploadClearsVideo ==
    [][mounted /\ lastStep'.kind = "fileRead" =>
          /\ st'.generatedVideo = Null
          /\ \E i \in 1..MaxFileOps :
                /\ fileOps[i].pc = "read" /\ fileOps'[i].pc = "idle"
                /\ st'.logoToAnimate = FileToBase64(fileOps[i].file)]_vars

C7_Witness ==
    /\ mounted
    /\ lastStep.kind = "fileRead"
    /\ st.generatedVideo = Null
    /\ st.logoToAnimate = FileToBase64("F1")
    /\ st.generatedLogo # Null

\* C8: whenever isGeneratingVideo goes from false to true, the loading message
\* is the first of videoLoadingMessages.
C8_FirstMessageOnStart ==
    [][mounted /\ ~st.isGeneratingVideo /\ st'.isGeneratingVideo =>
          st'.videoLoadingMessage = videoLoadingMessages[1]]_vars

\* C9: at most one interval is set, one is set only while the component is
\* mounted with isGeneratingVideo true, and the loading message changes only
\* in such a state.
C9_TimerOnlyWhileGenerating ==
    [][/\ timers' \in {0, 1}
       /\ timers' = 1 => mounted' /\ st'.isGeneratingVideo
       /\ st'.videoLoadingMessage # st.videoLoadingMessage =>
            mounted /\ st.isGeneratingVideo /\ timers = 1]_vars

C9_Witness ==
    /\ mounted
    /\ lastStep.kind = "tick"
    /\ timers = 1
    /\ st.isGeneratingVideo
    /\ st.videoLoadingMessage = videoLoadingMessages[2]

\* C10: at most one image call and at most one video call is in flight in
\* any reachable state.
C10_OneCallOfEachKind ==
    /\ Cardinality(LogoCalls) <= 1
    /\ Cardinality(VideoCalls) <= 1

\* C11: the step in which the provider answers that no key is selected sets
\* hasApiKey false and the select-a-key error, leaves isGeneratingVideo false
\* and generatedVideo as it was, and starts no video call.
C11_KeyMissingStopsBeforeDispatch ==
    [][mounted /\ lastStep'.kind = "videoKeyMissing" =>
          /\ ~st'.hasApiKey
          /\ st'.error = ErrSelectKey
          /\ ~st'.isGeneratingVideo
          /\ st'.generatedVideo = st.generatedVideo
          /\ VideoCalls' \subseteq VideoCalls]_vars

C11_Witness ==
    /\ mounted
    /\ lastStep.kind = "videoKeyMissing"
    /\ st.error = ErrSelectKey
    /\ st.generatedVideo # Null

\* C13 as stated: right after a file read resolves error is null; when it
\* fails error is the failed-to-read message and logoToAnimate and
\* generatedVideo are as they were.
C13_UploadClearsError ==
    [][mounted =>
          /\ lastStep'.kind = "fileRead" => st'.error = Null
          /\ lastStep'.kind = "fileReadFailed" =>
                /\ st'.error = ErrFileRead
                /\ st'.logoToAnimate = st.logoToAnimate
                /\ st'.generatedVideo = st.generatedVideo]_vars

\* C14: after the three segments of one handleGenerateVideo ran with no
\* segment of another handler in between and the call resolved, generatedVideo
\* is the video made from the animationPrompt, the payload of logoToAnimate and
\* the aspectRatio of the state, isGeneratingVideo is false and error is null.
C14_VideoStoredFromTriggerInputs ==
    mounted /\ solo.op = "video" /\ solo.stage = 3 =>
        /\ st.logoToAnimate # Null
        /\ st.generatedVideo =
              GenerateLogoVideo(st.animationPrompt, st.logoToAnimate[2], st.aspectRatio)
        /\ ~st.isGeneratingVideo
        /\ st.error = Null

C14_Witness ==
    /\ mounted
    /\ solo.op = "video" /\ solo.stage = 3
    /\ lastStep.kind = "videoResolved"
    /\ st.aspectRatio = "9:16"
    /\ st.generatedVideo = <<"video", "P2", "9:16", <<"w">>>>

\* C15: right after the dispatch of handleGenerateLogo error, generatedLogo,
\* logoToAnimate and generatedVideo are null; when the image call then rejects
\* with no segment of another handler in between they are still null, error is
\* the message of the failure or the logo fallback when it is empty, and
\* isGeneratingLogo is false.
C15_LogoFailureLeavesNothing ==
    mounted =>
        /\ lastStep.kind = "logoDispatch" =>
              /\ st.error = Null
              /\ st.generatedLogo = Null
              /\ st.logoToAnimate = Null
              /\ st.generatedVideo = Null
        /\ lastStep.kind = "logoRejected" /\ solo.op = "logo" /\ solo.stage = 2 =>
              /\ st.generatedLogo = Null
              /\ st.logoToAnimate = Null
              /\ st.generatedVideo = Null
              /\ st.error = (IF lastStep.msg = <<>> THEN ErrLogoFallback ELSE lastStep.msg)
              /\ ~st.isGeneratingLogo

C15_Witness ==
    /\ mounted
    /\ lastStep.kind = "logoRejected" /\ solo.op = "logo" /\ solo.stage = 2
    /\ lastStep.msg = <<>>
    /\ st.error = ErrLogoFallback
    /\ events >= 2

\* C16: the step in which openSelectKey resolves sets hasApiKey true and error
\* null and queries the provider no further; the step in which it rejects sets
\* the failed-to-open error and leaves hasApiKey as it was.
C16_SelectKeyOptimistic ==
    [][mounted =>
          /\ lastStep'.kind = "selectKeyResolved" =>
                /\ st'.hasApiKey /\ st'.error = Null
                /\ videoOps' = videoOps /\ keyCheck' = keyCheck
          /\ lastStep'.kind = "selectKeyRejected" =>
                /\ st'.error = ErrOpenSelector
                /\ st'.hasApiKey = st.hasApiKey]_vars

C16_Witness ==
    /\ mounted
    /\ lastStep.kind = "selectKeyResolved"
    /\ st.hasApiKey
    /\ st.error = Null
    /\ keyCheck = "done"

\* C17: no segment of handleGenerateLogo changes isGeneratingVideo, and no
\* segment of handleGenerateVideo changes isGeneratingLogo, generatedLogo or
\* logoToAnimate.
C17_BusyFlagsIndependent ==
    [][/\ lastStep'.kind \in {"logoInvalid", "logoDispatch", "logoResolved",
                              "logoRejected"} =>
            st'.isGeneratingVideo = st.isGeneratingVideo
       /\ lastStep'.kind \in {"videoInvalid", "videoCheckKey", "videoKeyMissing",
                              "videoDispatch", "videoKeyCheckFailed",
                              "videoResolved", "videoRejected"} =>
            /\ st'.isGeneratingLogo = st.isGeneratingLogo
            /\ st'.generatedLogo = st.generatedLogo
            /\ st'.logoToAnimate = st.logoToAnimate]_vars

\* Both kinds of request in flight, both flags true.
C17_Witness ==
    /\ mounted
    /\ LogoCalls # {} /\ VideoCalls # {}
    /\ st.isGeneratingLogo /\ st.isGeneratingVideo

\* C19: while the component is mounted, isGeneratingVideo is true in every
\* state with a video call in flight and isGeneratingLogo in every state with
\* an image call in flight.
C19_BusyWhileCallInFlight ==
    mounted =>
        /\ VideoCalls # {} => st.isGeneratingVideo
        /\ LogoCalls # {} => st.isGeneratingLogo

\* C12: a call of handleGenerateVideo with logoToAnimate null or with an empty
\* or spaces-only animationPrompt sets a validation error and nothing else: no
\* invocation awaits the provider, no video call starts, and isGeneratingVideo,
\* generatedVideo and hasApiKey are as they were; only a call with an image
\* and a visible prompt goes on to the provider.
C12_VideoValidationFirst ==
    [][/\ lastStep'.kind = "videoCheckKey" =>
            st.logoToAnimate # Null /\ ~OnlySpaces(st.animationPrompt)
       /\ lastStep'.kind = "videoInvalid" =>
            /\ st.logoToAnimate = Null \/ OnlySpaces(st.animationPrompt)
            /\ st'.error = (IF st.logoToAnimate = Null
                            THEN ErrNoLogo ELSE ErrAnimationPrompt)
            /\ videoOps' = videoOps
            /\ st'.isGeneratingVideo = st.isGeneratingVideo
            /\ st'.generatedVideo = st.generatedVideo
            /\ st'.hasApiKey = st.hasApiKey]_vars

C12_Witness ==
    /\ lastStep.kind = "videoInvalid"
    /\ st.logoToAnimate = Null
    /\ st.error = ErrNoLogo
    /\ st.generatedLogo = Null

\* No call of any handler is pending and both busy flags are false.
Idle ==
    /\ \A i \in 1..MaxLogoOps : logoOps[i].pc = "idle"
    /\ \A i \in 1..MaxVideoOps : videoOps[i].pc = "idle"
    /\ \A i \in 1..MaxFileOps : fileOps[i].pc = "idle"
    /\ keyCheck = "done"
    /\ selectOp = "idle"
    /\ ~st.isGeneratingLogo
    /\ ~st.isGeneratingVideo

\* C18: when every pending call is settled sooner or later, from every state
\* in which a call is pending or a busy flag is true the component reaches a
\* state in which nothing is pending and both busy flags are false.
C18_ReturnsToIdle == ~Idle ~> Idle

C18_Witness ==
    /\ Idle
    /\ lastStep.kind = "videoRejected"
    /\ st.error # Null

====
